---------------------------- MODULE Spec2Model ----------------------------
(***************************************************************************)
(* Model of metify/_speedups.pyx: fast attribute access, field validation  *)
(* and serialization, the batch processor, the instance pool (MemoryPool)  *)
(* and the cached field descriptor (OptimizedDescriptor).                  *)
(*                                                                         *)
(* Instances are plain Python objects (object.__new__ of the model class)  *)
(* with an instance dictionary.  An attribute that is not in the           *)
(* dictionary is the value Absent.  Descriptors are driven through their   *)
(* __get__/__set__ methods; the shadow attribute of field f is "_f".       *)
(* Instance identities id(obj) are small integers: an identity is free     *)
(* again once its object has been reclaimed.                               *)
(***************************************************************************)
EXTENDS Integers, Sequences, FiniteSets, TLC

(* ------------------------------ bounds -------------------------------- *)

\* number of object identities (addresses) the allocator hands out
MaxInst == 2
\* the pool capacities that are tried: max_size \in 0..MaxPoolSize
MaxPoolSize == 2
\* how often the default factory of one field may be invoked in a run
MaxProduce == 2
\* how many release(acquire()) round trips are counted
MaxRoundTrips == 3
\* length of the instance list handed to a batch operation
MaxBatchLen == 2
\* how many attribute writes application code performs in a run
MaxWrites == 2
\* register_type_validator calls in a behaviour
MaxRegister == 3
\* the integers handed to validate and serialize are -MaxInt..MaxInt
MaxInt == 2

Ids == 1..MaxInst

(* ------------------------------ values -------------------------------- *)

\* A Python object: its kind, its payload and its object identity.  oid 0
\* is used for values whose identity nobody relies on (small ints, None);
\* a value produced by a default factory carries a fresh oid.
Val(k, n, o) == [kind |-> k, n |-> n, oid |-> o]

\* no attribute of that name / no cache entry for that key
Absent == Val("absent", 0, 0)
\* the _MISSING sentinel
MISSING == Val("missing", 0, 0)
\* Python's None
None == Val("none", 0, 0)
IntV(n) == Val("int", n, 0)

\* the integers application code writes into fields
IntVals == {-1, 1}
\* the values application code writes into fields
AppValues == {IntV(n) : n \in IntVals} \cup {None}

\* equality of content (Python ==), whatever the object identity
SameContent(a, b) == a.kind = b.kind /\ a.n = b.n

(* outcome of a call: a returned value or a raised exception *)
Ok(v) == [ok |-> TRUE, val |-> v, err |-> "none", msg |-> "none"]
Raise(e, m) == [ok |-> FALSE, val |-> Absent, err |-> e, msg |-> m]

(* ---------------------------- field table ----------------------------- *)

\* the FieldTable / model_class._fields, in insertion order
Fields == <<"age", "name", "tag", "note", "ident">>
FieldNames == {Fields[k] : k \in 1..Len(Fields)}
FieldIndex(f) == CHOOSE k \in 1..Len(Fields) : Fields[k] = f

\* an attribute that is no field of the table, set ad hoc by application code
ExtraAttr == "extra"
AttrNames == (FieldNames \cup {ExtraAttr}) \ {"ident"}

\* MetaField records of the table: validator, serializer and default factory
FieldSpec(f) ==
    CASE f = "age"  -> [validator |-> "failNeg", serializer |-> "none",
                        default |-> "zero"]
      [] f = "name" -> [validator |-> "negate", serializer |-> "failNeg",
                        default |-> "nodefault"]
      [] f = "tag"  -> [validator |-> "none", serializer |-> "none",
                        default |-> "noneFactory"]
      [] f = "note" -> [validator |-> "raiseAlways", serializer |-> "none",
                        default |-> "raising"]
      [] f = "ident" -> [validator |-> "negate", serializer |-> "none",
                         default |-> "zero"]

\* a user callback (validator or serializer) applied to a value
Callback(kind, v) ==
    CASE kind = "failNeg" ->
            IF v.kind # "int" THEN Raise("TypeError", "unorderable")
            ELSE IF v.n < 0 THEN Raise("UserError", "negative")
            ELSE Ok(v)
      [] kind = "negate" ->
            IF v.kind # "int" THEN Raise("TypeError", "bad operand")
            ELSE Ok(IntV(0 - v.n))
      [] kind = "raiseAlways" -> Raise("UserError", "always")
      [] kind = "raiseValueError" -> Raise("ValueError", "invalid")

\* MetaField.has_default()
has_default(f) == FieldSpec(f).default # "nodefault"

\* MetaField.produce(): the default factory's k-th invocation
produce(f, k) ==
    CASE FieldSpec(f).default = "zero" -> Ok(Val("int", 0, k))
      [] FieldSpec(f).default = "noneFactory" -> Ok(None)
      [] FieldSpec(f).default = "raising" -> Raise("UserError", "factory")
      [] OTHER -> Raise("TypeError", "no default")

\* MetaField.default: the one object stored in the field record
FieldDefault(f) == Val("factory", FieldIndex(f), 0)


(* ------------------------- Python attributes -------------------------- *)

\* the shadow attribute "_<name>" a descriptor reads and writes
ShadowName(f) == "_" \o f

\* the fields for which a descriptor has been created
DescFields == {"age", "name"}
ShadowNames == {ShadowName(f) : f \in DescFields}

\* read-only properties of the model class: readable on every instance,
\* neither settable nor deletable; "ident" is a field of the table, "kind"
\* is not
ReadOnlyAttrs == {"ident", "kind"}
ReadOnlyValue == IntV(1)

\* every attribute name an instance can show
AllNames == AttrNames \cup ShadowNames \cup ReadOnlyAttrs

\* str.startswith('_')
StartsWithUnderscore(a) == a \in ShadowNames

\* the instance dictionary of a newly allocated object
EmptyDict == [a \in AllNames |-> Absent]

\* getattr(obj, a)
GetAttr(d, a) ==
    IF a \in ReadOnlyAttrs THEN Ok(ReadOnlyValue)
    ELSE IF d[a] = Absent THEN Raise("AttributeError", a)
    ELSE Ok(d[a])

\* setattr(obj, a, v): the outcome and the dictionary afterwards
SetAttr(d, a, v) ==
    IF a \in ReadOnlyAttrs
    THEN [ok |-> FALSE, d |-> d]
    ELSE [ok |-> TRUE, d |-> [d EXCEPT ![a] = v]]

\* delattr(obj, a)
DelAttr(d, a) ==
    IF a \in ReadOnlyAttrs \/ d[a] = Absent
    THEN [ok |-> FALSE, d |-> d]
    ELSE [ok |-> TRUE, d |-> [d EXCEPT ![a] = Absent]]

\* dir(obj): instance attributes and the attributes of the class
Dir(d) == {a \in AllNames : d[a] # Absent} \cup ReadOnlyAttrs

(* ------------------------ FastFieldAccess ----------------------------- *)

get_attr_fast(d, name, default) ==
    LET r == GetAttr(d, name)
    IN  IF r.ok THEN r.val ELSE default

set_attr_fast(d, name, value) ==
    LET s == SetAttr(d, name, value)
    IN  IF s.ok THEN [ok |-> TRUE, d |-> s.d, err |-> "none"]
        ELSE [ok |-> FALSE, d |-> d, err |-> "AttributeError"]

(* ------------------- FieldValidator / FieldSerializer ------------------ *)

\* validate_with_type_check without the try: the validator's exception
\* reaches the caller as it is
validate_unwrapped(value, validator) ==
    IF validator = "none" THEN Ok(value) ELSE Callback(validator, value)

validate_with_type_check(value, validator) ==
    IF validator = "none" THEN Ok(value)
    ELSE LET r == Callback(validator, value)
         IN  IF r.ok THEN r
             ELSE Raise("ValueError", "Validation failed: " \o r.msg)

fast_validate(value, f) ==
    IF FieldSpec(f).validator = "none" THEN Ok(value)
    ELSE validate_with_type_check(value, FieldSpec(f).validator)

serialize_value(value, serializer) ==
    IF serializer = "none" THEN Ok(value)
    ELSE LET r == Callback(serializer, value)
         IN  IF r.ok THEN r
             ELSE Raise("ValueError", "Serialization failed: " \o r.msg)

fast_serialize(value, f) ==
    IF FieldSpec(f).serializer = "none" THEN Ok(value)
    ELSE serialize_value(value, FieldSpec(f).serializer)


(* --------------------------- BatchProcessor ---------------------------- *)

\* validate_batch, the body of the inner loop for one field of one object
ValidateField(d, f) ==
    IF FieldSpec(f).validator = "none" THEN d
    ELSE LET value == get_attr_fast(d, f, MISSING)
         IN  IF value = MISSING THEN d
             ELSE LET r == validate_with_type_check(value, FieldSpec(f).validator)
                  IN  IF ~r.ok THEN d
                      ELSE LET s == SetAttr(d, f, r.val)
                           IN  IF s.ok THEN s.d ELSE d

\* validate_batch with the try around the whole inner loop: the first
\* failing field ends the validation of the object
RECURSIVE ValidateFieldsAbort(_, _)
ValidateFieldsAbort(d, k) ==
    IF k > Len(Fields) THEN d
    ELSE LET f == Fields[k]
             value == get_attr_fast(d, f, MISSING)
             r == validate_with_type_check(value, FieldSpec(f).validator)
         IN  IF FieldSpec(f).validator # "none" /\ value # MISSING
                /\ (~r.ok \/ ~SetAttr(d, f, r.val).ok)
             THEN d
             ELSE ValidateFieldsAbort(ValidateField(d, f), k + 1)

\* validate_batch, the inner loop: fields k..Len(Fields) of one object
RECURSIVE ValidateFields(_, _)
ValidateFields(d, k) ==
    IF k > Len(Fields) THEN d
    ELSE ValidateFields(ValidateField(d, Fields[k]), k + 1)

\* validate_batch: the outer loop from object k on; A are the dictionaries
\* of all instances, objects the list of instances (by identity)
RECURSIVE ValidateObjects(_, _, _, _)
ValidateObjects(objects, A, k, results) ==
    IF k > Len(objects) THEN [attrs |-> A, results |-> results]
    ELSE ValidateObjects(objects,
                         [A EXCEPT ![objects[k]] = ValidateFields(A[objects[k]], 1)],
                         k + 1, Append(results, objects[k]))

validate_batch(objects, A) == ValidateObjects(objects, A, 1, <<>>)

\* serialize_batch, the body of the inner loop for one field: obj_dict is
\* the mapping built so far (a sequence of <<name, value>> pairs, in order
\* of insertion), cnt the factory invocations so far
SerializeField(d, f, exclude_none, obj_dict, cnt) ==
    LET skip == [obj_dict |-> obj_dict, cnt |-> cnt]
        r == GetAttr(d, f)
    IN  IF ~r.ok THEN skip
        ELSE LET raw == IF r.val = None THEN MISSING ELSE r.val
                 p == produce(f, cnt[f] + 1)
                 called == raw = MISSING /\ has_default(f)
                 cnt2 == IF called THEN [cnt EXCEPT ![f] = @ + 1] ELSE cnt
                 skip2 == [obj_dict |-> obj_dict, cnt |-> cnt2]
             IN  IF raw = MISSING /\ ~has_default(f) THEN skip
                 ELSE IF called /\ ~p.ok THEN skip2
                 ELSE LET value == IF called THEN p.val ELSE raw
                      IN  IF exclude_none /\ value = None THEN skip2
                          ELSE LET z == serialize_value(value, FieldSpec(f).serializer)
                               IN  IF ~z.ok THEN skip2
                                   ELSE [obj_dict |-> Append(obj_dict, <<f, z.val>>),
                                         cnt |-> cnt2]

\* serialize_batch with the try around the whole inner loop: the first
\* field that raises ends the mapping of the object
RECURSIVE SerializeFieldsAbort(_, _, _, _, _)
SerializeFieldsAbort(d, k, exclude_none, obj_dict, cnt) ==
    IF k > Len(Fields) THEN [obj_dict |-> obj_dict, cnt |-> cnt]
    ELSE LET f == Fields[k]
             r == GetAttr(d, f)
             called == r.ok /\ r.val = None /\ has_default(f)
             p == produce(f, cnt[f] + 1)
             value == IF called THEN p.val ELSE r.val
             raises == \/ ~r.ok
                       \/ called /\ ~p.ok
                       \/ /\ r.ok /\ (called \/ r.val # None)
                          /\ ~(exclude_none /\ value = None)
                          /\ ~serialize_value(value, FieldSpec(f).serializer).ok
             s == SerializeField(d, f, exclude_none, obj_dict, cnt)
         IN  IF raises THEN s
             ELSE SerializeFieldsAbort(d, k + 1, exclude_none, s.obj_dict, s.cnt)

\* serialize_batch, the inner loop: fields k..Len(Fields) of one object
RECURSIVE SerializeFields(_, _, _, _, _)
SerializeFields(d, k, exclude_none, obj_dict, cnt) ==
    IF k > Len(Fields) THEN [obj_dict |-> obj_dict, cnt |-> cnt]
    ELSE LET s == SerializeField(d, Fields[k], exclude_none, obj_dict, cnt)
         IN  SerializeFields(d, k + 1, exclude_none, s.obj_dict, s.cnt)

\* serialize_batch that serializes an instance once, however often it is
\* in the list
RECURSIVE SerializeObjectsOnce(_, _, _, _, _, _)
SerializeObjectsOnce(objects, A, exclude_none, k, results, cnt) ==
    IF k > Len(objects) THEN [results |-> results, cnt |-> cnt]
    ELSE IF \E j \in 1..(k - 1) : objects[j] = objects[k]
    THEN SerializeObjectsOnce(objects, A, exclude_none, k + 1, results, cnt)
    ELSE LET s == SerializeFields(A[objects[k]], 1, exclude_none, <<>>, cnt)
         IN  SerializeObjectsOnce(objects, A, exclude_none, k + 1,
                                  Append(results, s.obj_dict), s.cnt)

\* serialize_batch: the outer loop from object k on
RECURSIVE SerializeObjects(_, _, _, _, _, _)
SerializeObjects(objects, A, exclude_none, k, results, cnt) ==
    IF k > Len(objects) THEN [results |-> results, cnt |-> cnt]
    ELSE LET s == SerializeFields(A[objects[k]], 1, exclude_none, <<>>, cnt)
         IN  SerializeObjects(objects, A, exclude_none, k + 1,
                              Append(results, s.obj_dict), s.cnt)

serialize_batch(objects, A, exclude_none, cnt) ==
    SerializeObjects(objects, A, exclude_none, 1, <<>>, cnt)


(* ------------------------------ MemoryPool ----------------------------- *)

\* MemoryPool.__init__: the names of self._field_defaults, the fields of
\* model_class._fields for which has_default() holds; the value stored for
\* name f is FieldDefault(f)
field_defaults == {f \in FieldNames : has_default(f)}

\* acquire, the loop over self._field_defaults: setattr of the stored
\* default, a failing setattr being skipped
ResetDefaults(d) ==
    [a \in AllNames |->
        IF a \in field_defaults /\ SetAttr(d, a, FieldDefault(a)).ok
        THEN FieldDefault(a)
        ELSE d[a]]

\* release with the try around the whole loop over dir(obj), which lists
\* the names in alphabetical order: the first failing delattr ends the loop
StripUntilFailure(d) ==
    LET order == <<"age", ExtraAttr, "ident", "kind", "name", "note", "tag">>
        todo(k) == /\ order[k] \in Dir(d)
                   /\ order[k] \notin field_defaults
        fails == {k \in 1..Len(order) : todo(k) /\ ~DelAttr(d, order[k]).ok}
    IN  [a \in AllNames |->
            IF \E k \in 1..Len(order) :
                  /\ order[k] = a /\ todo(k) /\ DelAttr(d, a).ok
                  /\ \A j \in fails : k < j
            THEN Absent
            ELSE d[a]]

\* release, the loop over dir(obj): delattr of every public attribute that
\* is no key of self._field_defaults, a failing delattr being skipped
Strip(d) ==
    [a \in AllNames |->
        IF /\ a \in Dir(d)
           /\ ~StartsWithUnderscore(a)
           /\ a \notin field_defaults
           /\ DelAttr(d, a).ok
        THEN Absent
        ELSE d[a]]

\* acquire that reads the last free instance and leaves it in the list
acquire_no_pop(p, A, fresh) ==
    IF Len(p) > 0
    THEN LET instance == p[Len(p)]
         IN  [inst |-> instance, hit |-> TRUE, pool |-> p,
              attrs |-> [A EXCEPT ![instance] = ResetDefaults(A[instance])]]
    ELSE [inst |-> fresh, hit |-> FALSE, pool |-> p,
          attrs |-> [A EXCEPT ![fresh] = EmptyDict]]

\* MemoryPool.acquire: p is self._pool, A the dictionaries of all
\* instances, fresh the identity object.__new__ would return
acquire(p, A, fresh) ==
    IF Len(p) > 0
    THEN LET instance == p[Len(p)]
         IN  [inst |-> instance, hit |-> TRUE,
              pool |-> SubSeq(p, 1, Len(p) - 1),
              attrs |-> [A EXCEPT ![instance] = ResetDefaults(A[instance])]]
    ELSE [inst |-> fresh, hit |-> FALSE, pool |-> p,
          attrs |-> [A EXCEPT ![fresh] = EmptyDict]]

\* release that appends whatever the number of free instances is
release_unbounded(p, A, maxsize, obj) ==
    [pool |-> Append(p, obj), attrs |-> [A EXCEPT ![obj] = Strip(A[obj])]]

\* MemoryPool.release
release(p, A, maxsize, obj) ==
    IF Len(p) < maxsize
    THEN [pool |-> Append(p, obj), attrs |-> [A EXCEPT ![obj] = Strip(A[obj])]]
    ELSE [pool |-> p, attrs |-> A]

\* clear that leaves the free list as it is
clear_keeps(p) == p

\* MemoryPool.clear
clear(p) == <<>>

\* MemoryPool.size
size(p) == Len(p)

(* -------------------------- OptimizedDescriptor ------------------------ *)

\* OptimizedDescriptor.__init__: self._cache = {}
EmptyCache == [i \in Ids |-> Absent]

\* OptimizedDescriptor.__get__ for the descriptor of field f: c is
\* self._cache, d the dictionary of obj, obj_id its identity, k the number
\* of the factory invocation a default would come from
desc_get(f, c, d, obj_id, k) ==
    IF c[obj_id] # Absent
    THEN [r |-> Ok(c[obj_id]), cache |-> c, d |-> d, called |-> FALSE,
          cached |-> TRUE]
    ELSE LET g == GetAttr(d, ShadowName(f))
         IN  IF g.ok
             THEN [r |-> g, cache |-> [c EXCEPT ![obj_id] = g.val], d |-> d,
                   called |-> FALSE, cached |-> FALSE]
             ELSE IF has_default(f)
             THEN LET v == produce(f, k)
                      s == SetAttr(d, ShadowName(f), v.val)
                  IN  IF v.ok /\ s.ok
                      THEN [r |-> v, cache |-> [c EXCEPT ![obj_id] = v.val],
                            d |-> s.d, called |-> TRUE, cached |-> FALSE]
                      ELSE [r |-> Raise("Exception", f), cache |-> c, d |-> d,
                            called |-> TRUE, cached |-> FALSE]
             ELSE [r |-> Raise("AttributeError", f), cache |-> c, d |-> d,
                   called |-> FALSE, cached |-> FALSE]

\* __set__ that updates the shadow attribute but not the cache
desc_set_no_cache(f, c, d, obj_id, value) ==
    LET v == IF FieldSpec(f).validator # "none"
             THEN Callback(FieldSpec(f).validator, value)
             ELSE Ok(value)
    IN  IF ~v.ok THEN [r |-> v, cache |-> c, d |-> d]
        ELSE [r |-> Ok(v.val), cache |-> c,
              d |-> SetAttr(d, ShadowName(f), v.val).d]

\* __set__ that updates the cache before it validates
desc_set_cache_first(f, c, d, obj_id, value) ==
    LET v == IF FieldSpec(f).validator # "none"
             THEN Callback(FieldSpec(f).validator, value)
             ELSE Ok(value)
    IN  IF ~v.ok THEN [r |-> v, cache |-> [c EXCEPT ![obj_id] = value], d |-> d]
        ELSE [r |-> Ok(v.val), cache |-> [c EXCEPT ![obj_id] = v.val],
              d |-> SetAttr(d, ShadowName(f), v.val).d]

\* __set__ with a cache keyed by value: every entry that equals the entry
\* of obj is replaced
desc_set_by_value(f, c, d, obj_id, value) ==
    LET v == IF FieldSpec(f).validator # "none"
             THEN Callback(FieldSpec(f).validator, value)
             ELSE Ok(value)
        s == SetAttr(d, ShadowName(f), v.val)
    IN  IF ~v.ok THEN [r |-> v, cache |-> c, d |-> d]
        ELSE IF ~s.ok THEN [r |-> Raise("AttributeError", f), cache |-> c, d |-> d]
        ELSE [r |-> Ok(v.val),
              cache |-> [i \in Ids |->
                            IF i = obj_id \/ (c[obj_id] # Absent
                                              /\ SameContent(c[i], c[obj_id]))
                            THEN v.val ELSE c[i]],
              d |-> s.d]

\* OptimizedDescriptor.__set__
desc_set(f, c, d, obj_id, value) ==
    LET v == IF FieldSpec(f).validator # "none"
             THEN Callback(FieldSpec(f).validator, value)
             ELSE Ok(value)
        s == SetAttr(d, ShadowName(f), v.val)
    IN  IF ~v.ok THEN [r |-> v, cache |-> c, d |-> d]
        ELSE IF ~s.ok THEN [r |-> Raise("AttributeError", f), cache |-> c, d |-> d]
        ELSE [r |-> Ok(v.val), cache |-> [c EXCEPT ![obj_id] = v.val], d |-> s.d]

\* clear_cache that drops nothing
clear_cache_noop(c) == c

\* OptimizedDescriptor.clear_cache
clear_cache(c) == EmptyCache


(* ----------------------------- TypeDispatcher -------------------------- *)

\* the type objects callers register and look up; "ColoredPoint" is a
\* subclass of "Point"
Types == {"Point", "ColoredPoint", "Other"}
Supertype(t) == IF t = "ColoredPoint" THEN "Point" ELSE "object"

\* what callers register for a type: validator functions, or None
TypeValidator(n) == Val("validator", n, 0)
Registrable == {TypeValidator(1), TypeValidator(2), None}

\* TYPE_VALIDATORS = {}
EmptyRegistry == [t \in Types |-> Absent]

\* TypeDispatcher.register_type_validator: T is TYPE_VALIDATORS
register_type_validator(T, type_obj, validator) ==
    [T EXCEPT ![type_obj] = validator]

\* get_type_validator that falls back to the validator of the superclass
get_type_validator_mro(T, type_obj) ==
    IF T[type_obj] # Absent THEN T[type_obj]
    ELSE IF Supertype(type_obj) \in Types /\ T[Supertype(type_obj)] # Absent
    THEN T[Supertype(type_obj)]
    ELSE None

\* TypeDispatcher.get_type_validator: dict.get gives None for a missing key
get_type_validator(T, type_obj) ==
    IF T[type_obj] = Absent THEN None ELSE T[type_obj]


(* -------------------------------- state -------------------------------- *)

VARIABLES
    attrs,      \* attrs[i]: the instance dictionary of the object with identity i
    held,       \* identities of the instances callers hold a reference to
    pool,       \* MemoryPool._pool
    max_size,   \* MemoryPool._max_size
    cache,      \* cache[f]: OptimizedDescriptor._cache of the descriptor of f
    produced,   \* produced[f]: invocations of the default factory of f so far
    last,       \* the last operation, its arguments and its outcome
    results,    \* the list the last operation returned, if it was a batch
                \* operation, and <<>> otherwise
    rt,         \* release(acquire()) round trips done on the pool since it was
                \* created, or -1 once any other pool operation has run
    misuse,     \* whether a caller has kept an instance that a release of
                \* its put on the free list
    stale,      \* the cache entries <<f, i>> written before the object that now
                \* has identity i was constructed or last taken from the pool
    writes,     \* attribute writes of application code so far
    registry,   \* TYPE_VALIDATORS
    reglog      \* the register_type_validator calls so far, as <<type, validator>>

vars == <<attrs, held, pool, max_size, cache, produced, last, results, rt,
          misuse, stale, writes, registry, reglog>>

Range(q) == {q[k] : k \in 1..Len(q)}
Min(a, b) == IF a < b THEN a ELSE b

\* the objects somebody still refers to
Live(h, p) == h \cup Range(p)

\* reference counting: an object nobody refers to is reclaimed, and its
\* identity can be given to a new object
Collect(A, h, p) == [i \in Ids |-> IF i \in Live(h, p) THEN A[i] ELSE EmptyDict]

\* the record of an operation: what was called on which instance and field
\* with which argument, and how it ended; the remaining entries are set by
\* the operations they belong to
\*   hit      acquire: the instance came from the free list
\*   shared   acquire: the instance returned was already checked out
\*   pushed   release: the instance was appended to the free list
\*   stripped release: the attributes the instance lost
\*   dropped  clear: the number of instances the free list lost; acquire:
\*            that number of the clear() before it
\*   after_clear   acquire: the operation before it was clear()
\*   cached   __get__: the value came from the descriptor's cache
\*   old      __get__: that cache entry is older than the instance, or than
\*            its last pool hit
\*   prev     __get__: "desc_set" after a successful __set__ of the same
\*            field on the same instance, "clear_cache" after clear_cache
\*            of the same descriptor, "other" otherwise
\*   setarg   __get__: the argument of that __set__
\*   objects, exclude_none   the arguments of a batch operation
\*   callback validate, serialize: the validator or serializer applied
\*   type     register_type_validator, get_type_validator: the type passed
MkLast(op, inst, f, arg, r) ==
    [op |-> op, inst |-> inst, field |-> f, arg |-> arg, ok |-> r.ok,
     err |-> r.err, msg |-> r.msg, val |-> r.val, hit |-> FALSE,
     shared |-> FALSE, pushed |-> FALSE, cached |-> FALSE, old |-> FALSE,
     prev |-> "other", setarg |-> Absent, objects |-> <<>>,
     exclude_none |-> FALSE, stripped |-> {}, dropped |-> 0,
     after_clear |-> FALSE, callback |-> "none", type |-> "none"]

Done(op) == MkLast(op, 0, "none", Absent, Ok(Absent))

Init ==
    /\ attrs = [i \in Ids |-> EmptyDict]
    /\ held = {}
    /\ pool = <<>>
    /\ max_size \in 0..MaxPoolSize
    /\ cache = [f \in DescFields |-> EmptyCache]
    /\ produced = [f \in FieldNames |-> 0]
    /\ last = Done("init")
    /\ results = <<>>
    /\ rt = 0
    /\ misuse = FALSE
    /\ stale = {}
    /\ writes = 0
    /\ registry = EmptyRegistry
    /\ reglog = <<>>

(* ----------------------- application code actions ---------------------- *)

\* the cache entries that exist for identity i
EntriesOf(i) == {<<f, i>> : f \in {g \in DescFields : cache[g][i] # Absent}}

\* model_class(): an instance made by normal construction
New(i) ==
    /\ i \notin Live(held, pool)
    /\ held' = held \cup {i}
    /\ attrs' = [attrs EXCEPT ![i] = EmptyDict]
    /\ stale' = stale \cup EntriesOf(i)
    /\ last' = MkLast("new", i, "none", Absent, Ok(Absent))
    /\ results' = <<>>
    /\ UNCHANGED <<pool, max_size, cache, produced, rt, misuse, writes,
                   registry, reglog>>

\* the holder of i drops its reference without releasing i to the pool
Discard(i) ==
    /\ i \in held
    /\ held' = held \ {i}
    /\ attrs' = Collect(attrs, held', pool)
    /\ last' = MkLast("discard", i, "none", Absent, Ok(Absent))
    /\ results' = <<>>
    /\ UNCHANGED <<pool, max_size, cache, produced, rt, misuse, stale, writes,
                   registry, reglog>>

\* obj.a = v by the holder of i
AppSet(i, a, v) ==
    /\ i \in held
    /\ writes < MaxWrites
    /\ writes' = writes + 1
    /\ attrs' = [attrs EXCEPT ![i] = SetAttr(attrs[i], a, v).d]
    /\ last' = MkLast("setattr", i, "none", Absent, Ok(Absent))
    /\ results' = <<>>
    /\ UNCHANGED <<held, pool, max_size, cache, produced, rt, misuse, stale,
                   registry, reglog>>

(* ------------------------------ pool actions --------------------------- *)

\* the attributes dictionary d has and dictionary e has not
Lost(d, e) == {a \in AllNames : d[a] # Absent /\ e[a] = Absent}

\* inst = pool.acquire()
Acquire(fresh) ==
    /\ pool = <<>> => fresh \notin Live(held, pool)
    /\ pool # <<>> => fresh = pool[Len(pool)]
    /\ LET a == acquire(pool, attrs, fresh)
       IN  /\ pool' = a.pool
           /\ held' = held \cup {a.inst}
           /\ attrs' = a.attrs
           /\ stale' = stale \cup EntriesOf(a.inst)
           /\ last' = [MkLast("acquire", a.inst, "none", Absent, Ok(Absent))
                           EXCEPT !.hit = a.hit, !.shared = a.inst \in held,
                                  !.after_clear = last.op = "clear",
                                  !.dropped = IF last.op = "clear"
                                              THEN last.dropped ELSE 0]
    /\ rt' = 0 - 1
    /\ UNCHANGED <<max_size, cache, produced, results, misuse, writes,
                   registry, reglog>>

\* pool.release(i) by the holder of i, who drops its reference
Release(i) ==
    /\ i \in held
    /\ LET r == release(pool, attrs, max_size, i)
       IN  /\ pool' = r.pool
           /\ held' = held \ {i}
           /\ attrs' = Collect(r.attrs, held', r.pool)
           /\ last' = [MkLast("release", i, "none", Absent, Ok(Absent))
                           EXCEPT !.pushed = Len(r.pool) > Len(pool),
                                  !.stripped = Lost(attrs[i], r.attrs[i])]
    /\ rt' = 0 - 1
    /\ UNCHANGED <<max_size, cache, produced, results, misuse, stale, writes,
                   registry, reglog>>

\* pool.release(i) by a holder that keeps its reference to i
ReleaseRetain(i) ==
    /\ i \in held
    /\ LET r == release(pool, attrs, max_size, i)
       IN  /\ pool' = r.pool
           /\ attrs' = r.attrs
           /\ last' = [MkLast("release_retain", i, "none", Absent, Ok(Absent))
                           EXCEPT !.pushed = Len(r.pool) > Len(pool),
                                  !.stripped = Lost(attrs[i], r.attrs[i])]
           /\ misuse' = (misuse \/ Len(r.pool) > Len(pool))
    /\ rt' = 0 - 1
    /\ UNCHANGED <<held, max_size, cache, produced, results, stale, writes,
                   registry, reglog>>

\* pool.clear()
Clear ==
    /\ pool' = clear(pool)
    /\ attrs' = Collect(attrs, held, pool')
    /\ last' = [Done("clear") EXCEPT !.dropped = Len(pool) - Len(pool')]
    /\ rt' = 0 - 1
    /\ UNCHANGED <<held, max_size, cache, produced, results, misuse, stale,
                   writes, registry, reglog>>

\* pool.release(pool.acquire())
RoundTrip(fresh) ==
    /\ pool = <<>> => fresh \notin Live(held, pool)
    /\ pool # <<>> => fresh = pool[Len(pool)]
    /\ rt < MaxRoundTrips
    /\ LET a == acquire(pool, attrs, fresh)
           r == release(a.pool, a.attrs, max_size, a.inst)
       IN  /\ pool' = r.pool
           /\ attrs' = Collect(r.attrs, held, r.pool)
           /\ stale' = stale \cup EntriesOf(a.inst)
           /\ last' = [MkLast("round_trip", a.inst, "none", Absent, Ok(Absent))
                           EXCEPT !.hit = a.hit, !.shared = a.inst \in held,
                                  !.pushed = Len(r.pool) > Len(a.pool)]
    /\ rt' = IF rt >= 0 THEN rt + 1 ELSE rt
    /\ UNCHANGED <<held, max_size, cache, produced, results, misuse, writes,
                   registry, reglog>>

(* --------------------------- descriptor actions ------------------------ *)

\* what the operation before a __get__ of field f on instance i was
PrevOf(f, i) ==
    IF last.op = "desc_set" /\ last.ok /\ last.field = f /\ last.inst = i
    THEN "desc_set"
    ELSE IF last.op = "clear_cache" /\ last.field = f THEN "clear_cache"
    ELSE "other"

\* descriptor_f.__get__(i)
DescGet(f, i) ==
    /\ i \in held
    /\ LET g == desc_get(f, cache[f], attrs[i], i, produced[f] + 1)
       IN  /\ g.called => produced[f] < MaxProduce
           /\ cache' = [cache EXCEPT ![f] = g.cache]
           /\ attrs' = [attrs EXCEPT ![i] = g.d]
           /\ produced' = IF g.called THEN [produced EXCEPT ![f] = @ + 1]
                          ELSE produced
           /\ last' = [MkLast("desc_get", i, f, Absent, g.r)
                           EXCEPT !.cached = g.cached,
                                  !.old = g.cached /\ <<f, i>> \in stale,
                                  !.prev = PrevOf(f, i),
                                  !.setarg = IF PrevOf(f, i) = "desc_set"
                                             THEN last.arg ELSE Absent]
    /\ UNCHANGED <<held, pool, max_size, results, rt, misuse, stale, writes,
                   registry, reglog>>

\* descriptor_f.__set__(i, v)
DescSet(f, i, v) ==
    /\ i \in held
    /\ writes < MaxWrites
    /\ writes' = writes + 1
    /\ LET s == desc_set(f, cache[f], attrs[i], i, v)
       IN  /\ cache' = [cache EXCEPT ![f] = s.cache]
           /\ attrs' = [attrs EXCEPT ![i] = s.d]
           /\ stale' = IF s.r.ok THEN stale \ {<<f, i>>} ELSE stale
           /\ last' = MkLast("desc_set", i, f, v, s.r)
    /\ UNCHANGED <<held, pool, max_size, produced, results, rt, misuse,
                   registry, reglog>>

\* descriptor_f.clear_cache()
ClearCache(f) ==
    /\ cache' = [cache EXCEPT ![f] = clear_cache(cache[f])]
    /\ stale' = {e \in stale : e[1] # f}
    /\ last' = MkLast("clear_cache", 0, f, Absent, Ok(Absent))
    /\ UNCHANGED <<attrs, held, pool, max_size, produced, results, rt, misuse,
                   writes, registry, reglog>>

(* ------------------------------ batch actions -------------------------- *)

\* the lists of instances a caller can hand to a batch operation
RECURSIVE SeqsUpTo(_, _)
SeqsUpTo(S, n) ==
    IF n = 0 THEN {<<>>}
    ELSE LET shorter == SeqsUpTo(S, n - 1)
         IN  shorter \cup {Append(q, x) : q \in shorter, x \in S}

\* validate_models_batch(objects, Fields)
ValidateBatch(objects) ==
    /\ LET v == validate_batch(objects, attrs)
       IN  /\ attrs' = v.attrs
           /\ results' = v.results
    /\ last' = [Done("validate_batch") EXCEPT !.objects = objects]
    /\ UNCHANGED <<held, pool, max_size, cache, produced, rt, misuse, stale,
                   writes, registry, reglog>>

\* serialize_models_batch(objects, Fields, exclude_none)
SerializeBatch(objects, exclude_none) ==
    /\ LET z == serialize_batch(objects, attrs, exclude_none, produced)
       IN  /\ \A f \in FieldNames : z.cnt[f] <= MaxProduce
           /\ produced' = z.cnt
           /\ results' = z.results
    /\ last' = [Done("serialize_batch") EXCEPT !.objects = objects,
                                                !.exclude_none = exclude_none]
    /\ UNCHANGED <<attrs, held, pool, max_size, cache, rt, misuse, stale,
                   writes, registry, reglog>>

(* ------------------- direct validation and serialization --------------- *)

\* the values callers hand to validate and serialize
DirectValues == {IntV(n) : n \in (0 - MaxInt)..MaxInt} \cup {None}

\* the validators and serializers a caller can pass: None or a callback
CallbackKinds == {"none", "failNeg", "negate", "raiseAlways", "raiseValueError"}

\* fast_validate(v, Fields[f])
Validate(v, f) ==
    /\ last' = [MkLast("fast_validate", 0, f, v, fast_validate(v, f))
                    EXCEPT !.callback = FieldSpec(f).validator]
    /\ UNCHANGED <<attrs, held, pool, max_size, cache, produced, results, rt,
                   misuse, stale, writes, registry, reglog>>

\* FieldValidator.validate_with_type_check(v, type, c)
ValidateWith(v, c) ==
    /\ last' = [MkLast("validate_with_type_check", 0, "none", v,
                       validate_with_type_check(v, c))
                    EXCEPT !.callback = c]
    /\ UNCHANGED <<attrs, held, pool, max_size, cache, produced, results, rt,
                   misuse, stale, writes, registry, reglog>>

\* fast_serialize(v, Fields[f])
Serialize(v, f) ==
    /\ last' = [MkLast("fast_serialize", 0, f, v, fast_serialize(v, f))
                    EXCEPT !.callback = FieldSpec(f).serializer]
    /\ UNCHANGED <<attrs, held, pool, max_size, cache, produced, results, rt,
                   misuse, stale, writes, registry, reglog>>

\* FieldSerializer.serialize_value(v, c)
SerializeWith(v, c) ==
    /\ last' = [MkLast("serialize_value", 0, "none", v, serialize_value(v, c))
                    EXCEPT !.callback = c]
    /\ UNCHANGED <<attrs, held, pool, max_size, cache, produced, results, rt,
                   misuse, stale, writes, registry, reglog>>

(* ---------------------------- registry actions ------------------------- *)

\* TypeDispatcher.register_type_validator(t, v)
Register(t, v) ==
    /\ Len(reglog) < MaxRegister
    /\ registry' = register_type_validator(registry, t, v)
    /\ reglog' = Append(reglog, <<t, v>>)
    /\ last' = [MkLast("register_type_validator", 0, "none", v, Ok(None))
                    EXCEPT !.type = t]
    /\ UNCHANGED <<attrs, held, pool, max_size, cache, produced, results, rt,
                   misuse, stale, writes>>

\* TypeDispatcher.get_type_validator(t)
Lookup(t) ==
    /\ last' = [MkLast("get_type_validator", 0, "none", Absent,
                       Ok(get_type_validator(registry, t)))
                    EXCEPT !.type = t]
    /\ UNCHANGED <<attrs, held, pool, max_size, cache, produced, results, rt,
                   misuse, stale, writes, registry, reglog>>

(* ---------------------------- specifications --------------------------- *)

\* what application code writes to a pooled instance
PoolWrites == {<<"age", IntV(1)>>, <<"name", IntV(-1)>>, <<ExtraAttr, IntV(1)>>}

\* the pool and its callers
NextPool ==
    \/ \E i \in Ids : New(i)
    \/ \E i \in Ids : Discard(i)
    \/ \E i \in Ids, w \in PoolWrites : AppSet(i, w[1], w[2])
    \/ \E i \in Ids : Acquire(i)
    \/ \E i \in Ids : Release(i)
    \/ \E i \in Ids : ReleaseRetain(i)
    \/ Clear
    \/ \E i \in Ids : RoundTrip(i)

SpecPool == Init /\ [][NextPool]_vars

\* the descriptors and their callers
NextDesc ==
    \/ \E i \in Ids : New(i)
    \/ \E i \in Ids : Discard(i)
    \/ \E i \in Ids, f \in DescFields, v \in AppValues :
          AppSet(i, ShadowName(f), v)
    \/ \E i \in Ids, f \in DescFields : DescGet(f, i)
    \/ \E i \in Ids, f \in DescFields, v \in AppValues : DescSet(f, i, v)
    \/ \E f \in DescFields : ClearCache(f)

\* no pool is used: its capacity is left at 0
InitDesc == Init /\ max_size = 0

SpecDesc == InitDesc /\ [][NextDesc]_vars

\* pooled instances that are accessed through the descriptor of "name"
NextTenant ==
    \/ \E i \in Ids : Acquire(i)
    \/ \E i \in Ids : Release(i)
    \/ \E i \in Ids, f \in DescFields : DescGet(f, i)
    \/ \E i \in Ids, f \in DescFields : DescSet(f, i, IntV(1))
    \/ \E f \in DescFields : ClearCache(f)

\* a pool of the largest capacity
InitTenant == Init /\ max_size = MaxPoolSize

SpecTenant == InitTenant /\ [][NextTenant]_vars

\* the batch processor and its callers
NextBatch ==
    \/ \E i \in Ids : New(i)
    \/ \E i \in Ids, a \in AttrNames \ {ExtraAttr}, v \in AppValues :
          AppSet(i, a, v)
    \/ \E objects \in SeqsUpTo(held, MaxBatchLen) : ValidateBatch(objects)
    \/ \E objects \in SeqsUpTo(held, MaxBatchLen), e \in BOOLEAN :
          SerializeBatch(objects, e)

SpecBatch == InitDesc /\ [][NextBatch]_vars

\* the descriptors and callers that never write a shadow attribute
\* themselves
NextCoherent ==
    \/ \E i \in Ids : New(i)
    \/ \E i \in Ids : Discard(i)
    \/ \E i \in Ids, f \in DescFields : DescGet(f, i)
    \/ \E i \in Ids, f \in DescFields, v \in AppValues : DescSet(f, i, v)
    \/ \E f \in DescFields : ClearCache(f)

SpecCoherent == InitDesc /\ [][NextCoherent]_vars

\* callers of the validation and serialization functions
NextDirect ==
    \/ \E v \in DirectValues, f \in FieldNames : Validate(v, f)
    \/ \E v \in DirectValues, c \in CallbackKinds : ValidateWith(v, c)
    \/ \E v \in DirectValues, f \in FieldNames : Serialize(v, f)
    \/ \E v \in DirectValues, c \in CallbackKinds : SerializeWith(v, c)

SpecDirect == InitDesc /\ [][NextDirect]_vars

\* callers of the type validator registry
NextRegistry ==
    \/ \E t \in Types, v \in Registrable : Register(t, v)
    \/ \E t \in Types : Lookup(t)

SpecRegistry == InitDesc /\ [][NextRegistry]_vars

Next ==
    NextPool \/ NextDesc \/ NextTenant \/ NextBatch \/ NextCoherent
        \/ NextDirect \/ NextRegistry

Spec == Init /\ [][Next]_vars


(* ================================ claims =============================== *)

\* C1: an instance recycled by the pool (released by one tenant, returned by
\* a later acquire) never returns, from a descriptor's __get__, a value the
\* previous tenant cached for a field the new tenant has not set: a value
\* that __get__ takes from an entry older than the instance's last pool hit
\* is at most the field's default.
C1_NoStaleValueAfterRecycling ==
    (last.op = "desc_get" /\ last.ok /\ last.cached /\ last.old) =>
        /\ has_default(last.field)
        /\ SameContent(last.val, produce(last.field, 1).val)

\* C2: on every acquire that is a pool hit each defaulted field is reset to
\* a value the default factory produced for this acquire: the field equals
\* D(), and it is not an object that other instances are given too.
C2_AcquireResetsToFreshDefault ==
    (last.op = "acquire" /\ last.hit) =>
        \A f \in field_defaults \ ReadOnlyAttrs :
            /\ SameContent(attrs[last.inst][f], produce(f, 1).val)
            /\ attrs[last.inst][f] # FieldDefault(f)

\* C3 (as stated): from an empty pool, n round trips release(acquire())
\* leave size == n when n <= max_size and size == max_size beyond that.
C3_RoundTripSizeIsCount ==
    rt >= 0 => size(pool) = Min(rt, max_size)

\* C3 (amended): from an empty pool, n >= 1 round trips release(acquire())
\* leave size == min(1, max_size): every acquire after the first pops the
\* instance the release before it pushed.
C3_RoundTripSizeIsOne ==
    rt >= 1 => size(pool) = Min(1, max_size)

\* C3 witness: two round trips on a pool that could hold two instances
C3_Witness ==
    rt >= 2 /\ max_size >= 2 /\ size(pool) = 1 /\ last.op = "round_trip"

\* C9: 0 <= size <= max_size after every operation; a release at capacity
\* leaves the free list as it was; with max_size = 0 no acquire is a pool hit.
C9_PoolCapacity ==
    [][ /\ 0 <= size(pool') /\ size(pool') <= max_size'
        /\ (last'.op \in {"release", "release_retain"} /\ size(pool) = max_size)
              => (pool' = pool /\ ~last'.pushed)
        /\ (last'.op \in {"acquire", "round_trip"} /\ max_size = 0)
              => (~last'.hit /\ pool' = <<>>) ]_vars

\* C9 witness: a release found the pool full and dropped the instance
C9_Witness ==
    /\ last.op = "release" /\ ~last.pushed
    /\ max_size > 0 /\ size(pool) = max_size
    /\ last.inst \notin Range(pool)

\* C10: as long as no caller keeps an instance it has released, no instance
\* is twice in the free list, none is both free and checked out, and acquire
\* never returns an instance somebody still holds.
C10_FreeInUseExclusive ==
    ~misuse =>
        /\ \A j, k \in 1..Len(pool) : pool[j] = pool[k] => j = k
        /\ Range(pool) \cap held = {}
        /\ last.op \in {"acquire", "round_trip"} => ~last.shared

\* C10 witness: a pool hit while another instance is checked out
C10_Witness ==
    /\ ~misuse /\ last.op = "acquire" /\ last.hit
    /\ held \ {last.inst} # {}


\* the mapping m (a sequence of <<name, value>> pairs) has the key f
HasKey(m, f) == \E j \in 1..Len(m) : m[j][1] = f
ValueAt(m, f) == m[CHOOSE j \in 1..Len(m) : m[j][1] = f][2]

\* C4: serialize_batch, missing attribute: for every instance and field, if
\* the instance has no attribute of that name, or its value is None, then a
\* field with a default is output with the serialized fresh default (unless
\* that default is None, or the serializer rejects it), and a field without
\* a default is not output.
C4_MissingFieldSerializesDefault ==
    last.op = "serialize_batch" =>
        \A k \in 1..Len(last.objects), f \in FieldNames :
            LET d == attrs[last.objects[k]]
                g == GetAttr(d, f)
                dflt == produce(f, 1)
                z == serialize_value(dflt.val, FieldSpec(f).serializer)
            IN  (~g.ok \/ g.val = None) =>
                    /\ (has_default(f) /\ dflt.ok /\ dflt.val # None /\ z.ok) =>
                          /\ HasKey(results[k], f)
                          /\ SameContent(ValueAt(results[k], f), z.val)
                    /\ ~has_default(f) => ~HasKey(results[k], f)

\* what validate_batch is to leave in attribute f of an instance with
\* dictionary d: the validator's result if f has a validator, is present,
\* validates and can be written; the prior value otherwise
Validated(d, f) ==
    LET g == GetAttr(d, f)
        r == Callback(FieldSpec(f).validator, g.val)
    IN  IF /\ FieldSpec(f).validator # "none"
           /\ g.ok
           /\ r.ok
           /\ SetAttr(d, f, r.val).ok
        THEN r.val
        ELSE d[f]

ValidatedDict(d) ==
    [a \in AllNames |-> IF a \in FieldNames THEN Validated(d, a) ELSE d[a]]

RECURSIVE ValidatedTimes(_, _)
ValidatedTimes(d, n) ==
    IF n = 0 THEN d ELSE ValidatedTimes(ValidatedDict(d), n - 1)

Occurrences(q, x) == Cardinality({k \in 1..Len(q) : q[k] = x})

\* C5: validate_batch isolates fields: a field whose read, validation or
\* write-back fails keeps its prior value, nothing is raised, and every
\* other field that is present and has a validator, of that instance and of
\* the instances after it, is overwritten with its validator's result (once
\* for every time the instance is in the list).
C5_ValidateBatchIsolatesFields ==
    [][ last'.op = "validate_batch" =>
          /\ last'.ok
          /\ \A i \in Ids :
                attrs'[i] = ValidatedTimes(attrs[i], Occurrences(last'.objects, i)) ]_vars

\* C5 witness: an instance whose "age" failed validation and kept its value,
\* followed in the list by an instance whose "name" was validated
C5_Witness ==
    /\ last.op = "validate_batch"
    /\ \E j, k \in 1..Len(results) :
          /\ j < k
          /\ results[j] # results[k]
          /\ attrs[results[j]]["age"] = IntV(-1)
          /\ attrs[results[k]]["name"] = IntV(-1)

\* what __set__ stores for field f when it is given v
Stored(f, v) ==
    IF FieldSpec(f).validator = "none" THEN v
    ELSE Callback(FieldSpec(f).validator, v).val

\* C6 (as stated): the __get__ that immediately follows a successful
\* __set__(instance, v) returns v.
C6_GetReturnsSetArgument ==
    (last.op = "desc_get" /\ last.prev = "desc_set") =>
        (last.ok /\ last.val = last.setarg)

\* C6 (amended): the __get__ that immediately follows a successful
\* __set__(instance, v) returns the value the field's validator returned for
\* v (v itself when the field has no validator), whatever was cached or
\* stored in the shadow attribute before.
C6_GetReturnsValidatedValue ==
    (last.op = "desc_get" /\ last.prev = "desc_set") =>
        (last.ok /\ last.val = Stored(last.field, last.setarg))

\* C6 witness: a get after a set whose validator changed the value
C6_Witness ==
    /\ last.op = "desc_get" /\ last.prev = "desc_set" /\ last.ok
    /\ last.val # last.setarg

\* C7: a __set__ whose validator rejects the value raises and leaves every
\* instance's attributes and every cache entry as they were; __set__ fails
\* exactly when the validator rejects the value.
C7_FailedSetChangesNothing ==
    [][ last'.op = "desc_set" =>
          /\ last'.ok <=> (FieldSpec(last'.field).validator = "none"
                            \/ Callback(FieldSpec(last'.field).validator,
                                        last'.arg).ok)
          /\ ~last'.ok => (attrs' = attrs /\ cache' = cache
                            /\ last'.err # "none") ]_vars

\* C7 witness: a rejected set on an instance that has a cache entry
C7_Witness ==
    /\ last.op = "desc_set" /\ ~last.ok
    /\ cache[last.field][last.inst] # Absent

\* C8: after clear_cache the descriptor has no entries, and the next __get__
\* returns the current shadow attribute if there is one, otherwise stores,
\* caches and returns a new default, otherwise raises AttributeError.
C8_GetAfterClearCache ==
    [][ /\ last'.op = "clear_cache" => cache'[last'.field] = EmptyCache
        /\ (last'.op = "desc_get" /\ last'.prev = "clear_cache") =>
              LET f == last'.field
                  i == last'.inst
                  sh == attrs[i][ShadowName(f)]
              IN  IF sh # Absent
                  THEN /\ last'.ok /\ last'.val = sh /\ ~last'.cached
                       /\ cache'[f][i] = sh
                       /\ attrs' = attrs
                  ELSE IF has_default(f)
                  THEN /\ last'.ok /\ ~last'.cached
                       /\ last'.val = produce(f, produced[f] + 1).val
                       /\ produced'[f] = produced[f] + 1
                       /\ attrs'[i][ShadowName(f)] = last'.val
                       /\ cache'[f][i] = last'.val
                  ELSE /\ ~last'.ok /\ last'.err = "AttributeError"
                       /\ cache' = cache /\ attrs' = attrs ]_vars

\* C8 witness: a get after clear_cache that returned a shadow attribute
\* which only application code can have written (__set__ rejects it)
C8_Witness ==
    /\ last.op = "desc_get" /\ last.prev = "clear_cache" /\ last.ok
    /\ last.field = "age" /\ last.val = IntV(-1)

\* C11: a release below capacity pushes the instance, and the pushed instance
\* has no attribute of a public name other than the names of the defaulted
\* fields; the delattr that fails (for the read-only "kind") is skipped,
\* the other attributes are stripped and the instance is pushed all the same.
C11_ReleaseStripsPublicAttributes ==
    [][ (last'.op \in {"release", "release_retain"} /\ size(pool) < max_size)
           => /\ last'.pushed
              /\ pool' = Append(pool, last'.inst)
              /\ ~DelAttr(attrs[last'.inst], "kind").ok
              /\ \A a \in AllNames :
                    (~StartsWithUnderscore(a) /\ a \notin field_defaults)
                        => attrs'[last'.inst][a] = Absent ]_vars

\* C11 witness: a release pushed an instance that lost the attributes
\* "extra" and "name", two names on either side of "kind" in dir(obj)
C11_Witness ==
    /\ last.op = "release" /\ last.pushed
    /\ last.stripped = {ExtraAttr, "name"}
    /\ last.inst \in Range(pool)
    /\ attrs[last.inst]["name"] = Absent /\ attrs[last.inst][ExtraAttr] = Absent


\* C12: clear() leaves size 0 and changes nothing else (the attributes of
\* the checked-out instances, the set of checked-out instances, max_size),
\* and an acquire that follows it allocates a new instance.
C12_ClearOnlyEmptiesPool ==
    [][ /\ last'.op = "clear" =>
              /\ size(pool') = 0
              /\ max_size' = max_size
              /\ held' = held
              /\ \A i \in held : attrs'[i] = attrs[i]
        /\ (last.op = "clear" /\ last'.op = "acquire") =>
              /\ ~last'.hit /\ ~last'.shared
              /\ last'.inst \notin Live(held, pool)
              /\ attrs'[last'.inst] = EmptyDict
              /\ size(pool') = 0 ]_vars

\* C12 witness: an acquire directly after a clear() that dropped a free
\* instance, while another instance that has attributes is checked out
C12_Witness ==
    /\ last.op = "acquire" /\ last.after_clear /\ last.dropped >= 1
    /\ ~last.hit
    /\ \E i \in held \ {last.inst} : attrs[i][ExtraAttr] # Absent

\* C13: serialize_batch, exclude_none: for every instance and field whose
\* resolved value (the attribute value, or the produced default when the
\* attribute is missing or None) is None, the field is left out of the
\* mapping when exclude_none is true and is in the mapping when it is false.
C13_ExcludeNone ==
    last.op = "serialize_batch" =>
        \A k \in 1..Len(last.objects), f \in FieldNames :
            LET g == GetAttr(attrs[last.objects[k]], f)
                dflt == produce(f, 1)
                resolved == IF g.ok /\ g.val # None THEN g
                            ELSE IF has_default(f) THEN dflt
                            ELSE Raise("skip", f)
            IN  (resolved.ok /\ resolved.val = None) =>
                    HasKey(results[k], f) = ~last.exclude_none

\* what serialize_batch is to output for field f of an instance with
\* dictionary d, whatever the other fields do: <<>> or one <<name, value>>
Alone(d, f, exclude_none) ==
    SerializeField(d, f, exclude_none, <<>>, [g \in FieldNames |-> 0]).obj_dict

\* the serializer or the default factory of field f fails for dictionary d
SerializationFails(d, f, exclude_none) ==
    LET g == GetAttr(d, f)
        p == produce(f, 1)
        value == IF g.val = None THEN p.val ELSE g.val
    IN  /\ g.ok
        /\ g.val = None => has_default(f)
        /\ \/ g.val = None /\ ~p.ok
           \/ /\ ~(g.val = None /\ ~p.ok)
              /\ ~(exclude_none /\ value = None)
              /\ ~serialize_value(value, FieldSpec(f).serializer).ok

\* C14: serialize_batch isolates fields and keeps the table's order: nothing
\* is raised; a field whose serializer or default factory fails is left out
\* of that instance's mapping; every other field, of that instance and of
\* the instances after it, is output exactly as it is when processed alone;
\* the keys of every mapping are in the order of the field table.
C14_SerializeBatchIsolatesFields ==
    last.op = "serialize_batch" =>
        /\ last.ok
        /\ Len(results) = Len(last.objects)
        /\ \A k \in 1..Len(results) :
              LET d == attrs[last.objects[k]]
                  m == results[k]
              IN  /\ \A j \in 1..Len(m) : m[j][1] \in FieldNames
                  /\ \A i, j \in 1..Len(m) :
                        i < j => FieldIndex(m[i][1]) < FieldIndex(m[j][1])
                  /\ \A f \in FieldNames :
                        /\ SerializationFails(d, f, last.exclude_none)
                              => ~HasKey(m, f)
                        /\ HasKey(m, f) = (Alone(d, f, last.exclude_none) # <<>>)
                        /\ HasKey(m, f) =>
                              SameContent(ValueAt(m, f),
                                          Alone(d, f, last.exclude_none)[1][2])

\* C14 witness: the serializer of "name" failed for the first instance, the
\* default factory of "note" failed for the second one, and both mappings
\* have the field that comes after them in the table
C14_Witness ==
    /\ last.op = "serialize_batch" /\ Len(results) = 2
    /\ last.objects[1] # last.objects[2]
    /\ attrs[last.objects[1]]["name"] = IntV(-1)
    /\ attrs[last.objects[2]]["note"] = None
    /\ SerializationFails(attrs[last.objects[1]], "name", last.exclude_none)
    /\ SerializationFails(attrs[last.objects[2]], "note", last.exclude_none)
    /\ results[1] = <<<<"ident", ReadOnlyValue>>>>
    /\ results[2] = <<<<"ident", ReadOnlyValue>>>>

\* the mapping serialize_batch builds for one instance with dictionary d
MappingOf(d, exclude_none) ==
    SerializeFields(d, 1, exclude_none, <<>>, [g \in FieldNames |-> 0]).obj_dict

\* two mappings with the same keys in the same order and values of the same
\* content
SameMapping(m, n) ==
    /\ Len(m) = Len(n)
    /\ \A j \in 1..Len(m) : m[j][1] = n[j][1] /\ SameContent(m[j][2], n[j][2])

\* C15: validate_batch returns a list as long as its input whose i-th
\* element is the i-th input instance; serialize_batch returns one mapping
\* per input instance, the i-th one built from the i-th instance; this also
\* when fields fail and when an instance is in the list more than once.
C15_BatchResultShape ==
    /\ last.op = "validate_batch" =>
          /\ last.ok
          /\ Len(results) = Len(last.objects)
          /\ \A k \in 1..Len(results) : results[k] = last.objects[k]
    /\ last.op = "serialize_batch" =>
          /\ last.ok
          /\ Len(results) = Len(last.objects)
          /\ \A k \in 1..Len(results) :
                SameMapping(results[k],
                            MappingOf(attrs[last.objects[k]], last.exclude_none))

\* C15 witness: serialize_batch of two instances with different mappings,
\* the serializer of "name" having failed for the second one
C15_Witness ==
    /\ last.op = "serialize_batch" /\ Len(results) = 2
    /\ attrs[last.objects[1]]["age"] = IntV(1)
    /\ attrs[last.objects[2]]["name"] = IntV(-1)
    /\ results[1] = <<<<"age", IntV(1)>>, <<"ident", ReadOnlyValue>>>>
    /\ results[2] = <<<<"ident", ReadOnlyValue>>>>

\* the exception validate_with_type_check and serialize_value raise: the
\* ValidationError and the SerializationError of the description are both
\* Python's ValueError, told apart by the start of the message
WrapperError == "ValueError"

\* what validation (serialization) with callback c is to give for value v
\* when a failure is reported with messages that start with prefix
Wrapped(c, v, prefix) ==
    IF c = "none" THEN Ok(v)
    ELSE IF Callback(c, v).ok THEN Ok(Callback(c, v).val)
    ELSE Raise(WrapperError, prefix \o Callback(c, v).msg)

RECURSIVE LastRegistered(_, _, _)
LastRegistered(log, n, t) ==
    IF n = 0 THEN None
    ELSE IF log[n][1] = t THEN log[n][2]
    ELSE LastRegistered(log, n - 1, t)

\* C17: after any sequence of register calls, lookup(T) returns the
\* validator of the most recent register(T, _) for exactly that type and
\* None if T itself was never registered, also when its supertype was;
\* register(T, v) leaves the mappings of all other types as they were, and
\* a lookup changes no mapping.
C17_RegistryLastWriteExactType ==
    [][ /\ last'.op = "get_type_validator" =>
              /\ last'.ok
              /\ last'.val = LastRegistered(reglog, Len(reglog), last'.type)
              /\ registry' = registry
        /\ last'.op = "register_type_validator" =>
              /\ registry'[last'.type] = last'.arg
              /\ \A u \in Types \ {last'.type} : registry'[u] = registry[u]
        /\ \A t \in Types :
              get_type_validator(registry', t)
                  = LastRegistered(reglog', Len(reglog'), t) ]_vars

\* C17 witness: "Point" was registered twice, and a lookup of its subclass
\* "ColoredPoint", which was never registered, returned None
C17_Witness ==
    /\ last.op = "get_type_validator" /\ last.type = "ColoredPoint"
    /\ last.val = None
    /\ Len(reglog) >= 2
    /\ reglog[1] = <<"Point", TypeValidator(1)>>
    /\ reglog[2] = <<"Point", TypeValidator(2)>>
    /\ registry["Point"] = TypeValidator(2)
    /\ registry["ColoredPoint"] = Absent

\* C18: no cache entry outlives the instance it was made for: a __get__ on
\* an instance never returns a value from an entry that was made for an
\* earlier, reclaimed instance of the same identity.
C18_NoEntryOutlivesInstance ==
    (last.op = "desc_get" /\ last.cached) => ~last.old

\* what descriptor_f.__get__(b) returns in a state with caches C and
\* dictionaries A (a default being the k-th the factory produces)
GetResult(f, C, A, b, k) == desc_get(f, C[f], A[b], b, k).r

\* C19: a __get__ or __set__ on a live instance a changes, for no other
\* live instance b and no descriptor, the value __get__(b) returns, b's
\* cache entry or b's attributes: entries are keyed by identity.
C19_CacheIsolation ==
    [][ last'.op \in {"desc_get", "desc_set"} =>
          \A b \in held \ {last'.inst} :
              /\ attrs'[b] = attrs[b]
              /\ \A f \in DescFields :
                    /\ cache'[f][b] = cache[f][b]
                    /\ GetResult(f, cache', attrs', b, MaxProduce)
                          = GetResult(f, cache, attrs, b, MaxProduce) ]_vars

\* C19 witness: a get on one instance while another live instance holds an
\* equal value for the same descriptor: the two have entries of their own,
\* equal in content and different objects
C19_Witness ==
    /\ last.op = "desc_get" /\ last.ok /\ last.field = "age"
    /\ \E b \in held \ {last.inst} :
          /\ cache["age"][b] # Absent
          /\ attrs[b][ShadowName("age")] = cache["age"][b]
          /\ SameContent(cache["age"][b], last.val)
          /\ cache["age"][b] # last.val
          /\ cache["age"][last.inst] = last.val

\* C20: when shadow attributes are written through the descriptor only,
\* every cache entry for a live instance equals that instance's shadow
\* attribute, after every operation; and the default factory is invoked at
\* most once per instance between two clear_cache calls: only a __get__ that
\* finds no entry invokes it, that __get__ leaves an entry, and only
\* clear_cache removes entries.
C20_CacheAgreesWithShadow ==
    [][ /\ \A f \in DescFields, i \in held' :
              cache'[f][i] # Absent
                  => cache'[f][i] = attrs'[i][ShadowName(f)]
        /\ \A f \in DescFields :
              produced'[f] # produced[f] =>
                  /\ last'.op = "desc_get" /\ last'.field = f
                  /\ produced'[f] = produced[f] + 1
                  /\ cache[f][last'.inst] = Absent
                  /\ cache'[f][last'.inst] # Absent
        /\ \A f \in DescFields, i \in Ids :
              (cache[f][i] # Absent /\ cache'[f][i] = Absent)
                  => (last'.op = "clear_cache" /\ last'.field = f) ]_vars

=============================================================================
